---- MODULE Spec2Model ----
(***************************************************************************)
(* lorry-mirror-updater: one run of main() in lorry_mirror_updater/        *)
(* __main__.py, as a state machine.  Every external command (git, bst,     *)
(* bst-to-lorry, the GitLab API) is an input whose outcome is drawn when   *)
(* the command is run.  The target repository is the checkout the tool is  *)
(* started in (the current directory); a clone is a temporary directory.  *)
(***************************************************************************)
EXTENDS Integers, Sequences, FiniteSets, TLC

\* ---------------------------------------------------------------- bounds
MaxRepos == 2
MaxBranches == 2
MaxElems == 2

\* ------------------------------------------------------- names and values
\* A branch name of the target repository is the tuple of its "/"-separated
\* segments; the third segment is kept as a tuple of characters so that the
\* \d+ part of the automation pattern is computed, not assumed.
None == <<>>
base_branch == <<"main">>
Digits == {"0", "1", "2", "3", "4", "5", "6", "7", "8", "9"}

\* datetime.now(utc).strftime("%Y%m%d%H%M%S"): fourteen digits.
Timestamps ==
  { <<"2","0","2","5","0","1","0","2","0","3","0","4","0","5">>,
    <<"2","0","2","6","1","1","0","2","0","8","4","2","0","0">> }

\* f"update-mirrors/{base_branch}/{timestamp}"
BranchName(base, timestamp) == <<"update-mirrors", base[1], timestamp>>

\* re.match(r"^update-mirrors/([^/]+)/(\d+)$", name)
MatchesBranchRegex(name) ==
  /\ Len(name) = 3
  /\ name[1] = "update-mirrors"
  /\ name[2] # ""
  /\ Len(name[3]) >= 1
  /\ \A i \in 1..Len(name[3]) : name[3][i] \in Digits

\* Local branches of the target checkout before the run.
LocalBranches == {<<"main">>, <<"dev">>}

\* Branches of the remote project other than the one this run pushes: an
\* older automation branch and a branch that only looks like one.
OldBranch == <<"update-mirrors", "main", <<"2","0","2","4","1","2","3","1","2","3","5","9","5","9">>>>
LookAlike == <<"update-mirrors", "main", <<"2","0","2","4","x">>>>
RemoteNames == {OldBranch, LookAlike}

\* ------------------------------------------------------------ the config
\* mirror_config: repository URL -> (branch -> list of elements), iterated in
\* insertion order, hence a sequence of records holding a sequence.
ElementList(n) == [i \in 1..n |-> <<"elem", i>>]

\* The b-th branch of a repository requires 1 + (b - 1) mod MaxElems elements.
RepoConfig(url, nbranches) ==
  [url |-> url,
   config |-> [b \in 1..nbranches |->
                 [branch |-> <<"branch", b>>,
                  elements |-> ElementList(1 + ((b - 1) % MaxElems))]]]

\* Up to MaxRepos repositories of up to MaxBranches branches each.
MirrorConfigs ==
  UNION { { [r \in 1..n |-> RepoConfig(<<"repo", r>>, shape[r])] :
              shape \in [1..n -> 0..MaxBranches] } :
          n \in 0..MaxRepos }

\* ----------------------------------------------------------------- state
VARIABLES
  args,            \* parsed options: push, create_mr
  GITLAB_IMPORTED, \* whether python-gitlab could be imported
  env,             \* the environment at start: tools in PATH, is the cwd a git
                   \* checkout, has the checkout uncommitted changes
  pc,              \* position of the run
  exit_code,       \* main()'s return value; -1 while the run has not returned
  failed,          \* the first step whose external outcome was a failure
  mirror_config,   \* the loaded config
  repo_i,          \* position of process_mirroring's loop
  branch_i,        \* position of process_repo's loop
  repo_ok,         \* what process_repo is about to return
  tmpdirs,         \* temporary clone directories that exist
  clone_head,      \* branch checked out in the clone
  missing,         \* the missing elements process_branch reported last
  head,            \* branch checked out in the target repository
  head0,           \* the branch the target repository was on when the run began
  branches,        \* local branches of the target repository
  dirty_git,       \* pending (uncommitted) changes under the git directory
  dirty_raw,       \* pending (uncommitted) changes under the raw files directory
  staged,          \* tracked directories with changes in the index
  commits,         \* commits made by the run: [branch, content]
  local_br,        \* commit_changes' local_br
  result,          \* process_mirroring's result <<status, branch>>, None before
  changed,         \* tracked directories with pending changes when all repositories were done
  remote_branches, \* branches of the remote project
  remote_merged,   \* remote branches already merged into the default branch
  open_mrs,        \* source branches of the open merge requests
  deleted,         \* remote branches removed by cleanup_branches
  log              \* the external commands run so far: [op, repo, branch, arg, ok]

vars == <<args, GITLAB_IMPORTED, env, pc, exit_code, failed, mirror_config,
          repo_i, branch_i, repo_ok, tmpdirs, clone_head, missing, head, head0,
          branches,
          dirty_git, dirty_raw, staged, commits, local_br, result, changed,
          remote_branches, remote_merged, open_mrs, deleted, log>>

targetVars == <<head, branches, dirty_git, dirty_raw, staged, commits>>
remoteVars == <<remote_branches, remote_merged, open_mrs, deleted>>
loopVars == <<repo_i, branch_i, repo_ok, tmpdirs, clone_head, missing>>
resultVars == <<local_br, result, changed>>
inputVars == <<args, GITLAB_IMPORTED, env, head0>>

\* One external command: what ran, for which repository and branch of the
\* config (0 when it is for none), with which elements, and whether it succeeded.
Event(op, r, b, arg, ok) ==
  [op |-> op, repo |-> r, branch |-> b, arg |-> arg, ok |-> ok]

Logged(op, r, b, arg, ok) == log' = Append(log, Event(op, r, b, arg, ok))

Init ==
  /\ args \in [push : BOOLEAN, create_mr : BOOLEAN]
  /\ GITLAB_IMPORTED \in BOOLEAN
  /\ env \in [git : BOOLEAN, bst : BOOLEAN, bst_to_lorry : BOOLEAN,
               is_git_dir : BOOLEAN, dirty : BOOLEAN]
  /\ pc = "main"
  /\ exit_code = -1
  /\ failed = "none"
  /\ mirror_config = <<>>
  /\ repo_i = 1
  /\ branch_i = 1
  /\ repo_ok = TRUE
  /\ tmpdirs = {}
  /\ clone_head = None
  /\ missing = <<>>
  /\ head \in LocalBranches
  /\ head0 = head
  /\ branches = LocalBranches
  /\ dirty_git \in BOOLEAN
  /\ dirty_raw \in BOOLEAN
  /\ (dirty_git \/ dirty_raw) => env.dirty
  /\ staged = {}
  /\ commits = <<>>
  /\ local_br = None
  /\ result = None
  /\ changed = {}
  /\ remote_branches = {}
  /\ remote_merged = {}
  /\ open_mrs = {}
  /\ deleted = {}
  /\ log = <<>>

\* main() returns `code`; `why` names the step that failed, if one did.
Return(code, why) ==
  /\ pc' = "done"
  /\ exit_code' = code
  /\ failed' = IF failed = "none" THEN why ELSE failed

Goto(label) ==
  /\ pc' = label
  /\ UNCHANGED <<exit_code, failed>>

\* A step failed and the run goes on to `label` to unwind.
Fail(why, label) ==
  /\ pc' = label
  /\ failed' = IF failed = "none" THEN why ELSE failed
  /\ UNCHANGED exit_code

\* ------------------------------------------------------------------ main
\* main(), lines 536-542: the two flag checks.
FlagsValid(a, imported) ==
  /\ ~(a.create_mr /\ ~a.push)
  /\ ~(a.create_mr /\ ~imported)

ValidateFlags ==
  /\ pc = "main"
  /\ IF FlagsValid(args, GITLAB_IMPORTED)
       THEN Goto("validate_environment")
       ELSE Return(1, "flags")
  /\ UNCHANGED <<inputVars, mirror_config, loopVars, targetVars, resultVars,
                 remoteVars, log>>

\* is_dirty(): a failed status query answers "dirty".
is_dirty(status_ok, pending) == IF status_ok THEN pending ELSE TRUE

\* Mutant of validate_environment: the check of bst-to-lorry is left out.
validate_environment_two_tools(e, git_dir_ok, dirty) ==
  /\ e.git
  /\ e.bst
  /\ git_dir_ok
  /\ ~dirty

\* validate_environment(): the five validations, in order; all must hold.
validate_environment(e, git_dir_ok, dirty) ==
  /\ e.git
  /\ e.bst
  /\ e.bst_to_lorry
  /\ git_dir_ok
  /\ ~dirty

\* The list of validations is built eagerly: is_git_dir() and is_dirty() run git
\* even when git is not in PATH, and subprocess.run then raises
\* FileNotFoundError, which nothing catches: the interpreter exits with 1.
ValidateEnvironment ==
  /\ pc = "validate_environment"
  /\ \E status_ok \in BOOLEAN :
       IF ~env.git
         THEN Return(1, "validate_environment")
         ELSE IF validate_environment(env, env.is_git_dir,
                                      is_dirty(status_ok /\ env.is_git_dir, env.dirty))
                THEN Goto("load_mirror_config")
                ELSE Return(1, "validate_environment")
  /\ UNCHANGED <<inputVars, mirror_config, loopVars, targetVars, resultVars,
                 remoteVars, log>>

\* load_mirror_config(): the file is missing, is not JSON, or holds a config.
LoadMirrorConfig ==
  /\ pc = "load_mirror_config"
  /\ \/ /\ Return(1, "load_mirror_config")
        /\ UNCHANGED mirror_config
     \/ /\ \E config \in MirrorConfigs : mirror_config' = config
        /\ Goto("get_toplevel")
  /\ UNCHANGED <<inputVars, loopVars, targetVars, resultVars, remoteVars, log>>

\* get_toplevel(): git rev-parse --show-toplevel, None when it fails.
GetToplevel ==
  /\ pc = "get_toplevel"
  /\ \/ Return(1, "get_toplevel")
     \/ Goto("process_mirroring")
  /\ UNCHANGED <<inputVars, mirror_config, loopVars, targetVars, resultVars,
                 remoteVars, log>>

\* ----------------------------------------------------- the orchestration
CurrentRepo == mirror_config[repo_i]
CurrentBranch == CurrentRepo.config[branch_i]

\* run_git(): with no repo_path the command runs in the current directory,
\* which is the target repository; otherwise in the path given.
cwd == <<"cwd">>
clone_dest == <<"clone_dest">>
run_git_path(repo_path) == IF repo_path = None THEN cwd ELSE repo_path

\* checkout_branch(branch, repo_path): git -C <path> checkout <branch>.
checkout_branch(b, repo_path, ok) ==
  IF ~ok
    THEN UNCHANGED <<head, clone_head>>
    ELSE IF run_git_path(repo_path) = cwd
           THEN head' = b /\ UNCHANGED clone_head
           ELSE clone_head' = b /\ UNCHANGED head

\* Mutant of process_mirroring_continues: a failed repository is skipped.
process_mirroring_skips_failure(repo_succeeded) == TRUE

\* process_mirroring(), line 370: a failed repository ends the loop.
process_mirroring_continues(repo_succeeded) == repo_succeeded

\* Mutant of process_repo_continues: a failed step of a repository is ignored.
process_repo_skips_failure(branch_succeeded) == TRUE

\* process_repo(), line 334: a failed branch ends the loop.
process_repo_continues(branch_succeeded) == branch_succeeded

\* Mutant of process_branch_generates: the generator runs whatever is missing.
process_branch_generates_always(missing_elements) == TRUE

\* process_branch(), line 297: any missing element fails the branch.
process_branch_generates(missing_elements) == missing_elements = <<>>

\* A step of process_repo's body came out as `ok`: go on to `next`, or leave
\* the with-block returning False.
RepoStep(ok, why, next) ==
  IF process_repo_continues(ok)
    THEN Goto(next) /\ UNCHANGED repo_ok
    ELSE Fail(why, "repo_exit") /\ repo_ok' = FALSE

\* clone_repo(): a temporary directory is made and git clone runs into it.
CloneRepo ==
  /\ pc = "process_mirroring"
  /\ repo_i <= Len(mirror_config)
  /\ tmpdirs' = tmpdirs \cup {CurrentRepo.url}
  /\ \E ok \in BOOLEAN :
       /\ Logged("clone", repo_i, 0, None, ok)
       /\ IF ok
            THEN Goto("checkout_base") /\ UNCHANGED repo_ok
            ELSE Fail("clone", "repo_exit") /\ repo_ok' = FALSE
  /\ UNCHANGED <<inputVars, mirror_config, missing, repo_i, branch_i, clone_head,
                 targetVars, resultVars, remoteVars>>

\* process_repo(), line 330: checkout_branch(base_branch), no repo_path.
CheckoutBase ==
  /\ pc = "checkout_base"
  /\ \E ok \in BOOLEAN :
       /\ Logged("checkout_base", repo_i, 0, None, ok)
       /\ checkout_branch(base_branch, None, ok)
       /\ RepoStep(ok, "checkout_base", "process_repo")
  /\ UNCHANGED <<inputVars, mirror_config, missing, repo_i, branch_i, tmpdirs,
                 branches, dirty_git, dirty_raw, staged, commits,
                 resultVars, remoteVars>>

\* process_branch(), line 290: checkout of the branch in the clone.
CheckoutBranch ==
  /\ pc = "process_repo"
  /\ branch_i <= Len(CurrentRepo.config)
  /\ \E ok \in BOOLEAN :
       /\ Logged("checkout", repo_i, branch_i, None, ok)
       /\ checkout_branch(CurrentBranch.branch, clone_dest, ok)
       /\ RepoStep(ok, "checkout", "element_exists")
  /\ UNCHANGED <<inputVars, mirror_config, missing, repo_i, branch_i, tmpdirs,
                 branches, dirty_git, dirty_raw, staged, commits,
                 resultVars, remoteVars>>

\* Mutant of missing_elements: the scan stops at the first missing element.
missing_elements_first(elements, exists) ==
  IF \A i \in 1..Len(elements) : exists[i]
    THEN <<>>
    ELSE <<elements[CHOOSE i \in 1..Len(elements) :
                      ~exists[i] /\ \A k \in 1..(i - 1) : exists[k]]>>

\* process_branch(), lines 293-295: the elements element_exists() fails for, in
\* the order of the list.
missing_elements(elements, exists) ==
  SelectSeq(elements, LAMBDA e : ~exists[e[2]])

\* process_branch(), lines 293-304: element_exists() runs for every element of
\* the list; the ones it fails for are reported (logging.error) and fail the
\* branch.
CheckElements ==
  /\ pc = "element_exists"
  /\ LET elements == CurrentBranch.elements
     IN \E exists \in [1..Len(elements) -> BOOLEAN] :
          /\ log' = log \o [i \in 1..Len(elements) |->
                      Event("element_exists", repo_i, branch_i, elements[i], exists[i])]
          /\ missing' = missing_elements(elements, exists)
          /\ IF process_branch_generates(missing_elements(elements, exists))
               THEN Goto("run_bst_to_lorry") /\ UNCHANGED repo_ok
               ELSE RepoStep(FALSE, "element_exists", "run_bst_to_lorry")
  /\ UNCHANGED <<inputVars, mirror_config, repo_i, branch_i, tmpdirs, clone_head,
                 targetVars, resultVars, remoteVars>>

\* run_bst_to_lorry(): the generator runs in the clone and writes into the two
\* tracked directories of the target repository (absolute paths under its
\* toplevel); what it wrote stays whether it exits 0 or not.
RunBstToLorry ==
  /\ pc = "run_bst_to_lorry"
  /\ \E ok \in BOOLEAN, wrote_git \in BOOLEAN, wrote_raw \in BOOLEAN :
       /\ Logged("bst-to-lorry", repo_i, branch_i, CurrentBranch.elements, ok)
       /\ dirty_git' = (dirty_git \/ wrote_git)
       /\ dirty_raw' = (dirty_raw \/ wrote_raw)
       /\ RepoStep(ok, "bst-to-lorry", "process_repo")
       /\ branch_i' = IF process_repo_continues(ok) THEN branch_i + 1 ELSE branch_i
  /\ UNCHANGED <<inputVars, mirror_config, missing, repo_i, tmpdirs, clone_head,
                 head, branches, staged, commits, resultVars, remoteVars>>

\* process_repo(), line 346: every branch is done; the with-block is left.
ProcessRepoReturn ==
  /\ pc = "process_repo"
  /\ branch_i > Len(CurrentRepo.config)
  /\ Goto("repo_exit")
  /\ UNCHANGED <<inputVars, mirror_config, loopVars, targetVars, resultVars,
                 remoteVars, log>>

\* Mutant of scope_exit: the temporary directory stays when the scope is left
\* with a failure.
scope_exit_keeps_on_failure(dirs, url, ok) == IF ok THEN dirs \ {url} ELSE dirs

\* clone_repo(), line 199: the clone lives in a tempfile.TemporaryDirectory(),
\* which is removed when the context manager is left, whether process_repo
\* leaves it by return False or by falling off its end.
scope_exit(dirs, url, ok) == dirs \ {url}

\* Mutant of next_repo: the repository after the next one.
next_repo_skips_one(i) == i + 2

\* process_mirroring(), line 369: the for loop takes the repositories of the
\* config one after the other.
next_repo(i) == i + 1

\* Leaving the with-block of process_repo removes the temporary directory;
\* process_mirroring (line 370) then goes on to the next repository or returns
\* (False, None).
RepoExit ==
  /\ pc = "repo_exit"
  /\ tmpdirs' = scope_exit(tmpdirs, CurrentRepo.url, repo_ok)
  /\ clone_head' = None
  /\ IF process_mirroring_continues(repo_ok)
       THEN /\ repo_i' = next_repo(repo_i)
            /\ branch_i' = 1
            /\ repo_ok' = TRUE
            /\ Goto("process_mirroring")
            /\ UNCHANGED result
       ELSE /\ result' = <<FALSE, None>>
            /\ Goto("main_result")
            /\ UNCHANGED <<repo_i, branch_i, repo_ok>>
  /\ UNCHANGED <<inputVars, mirror_config, missing, targetVars, local_br,
                 changed, remoteVars, log>>

\* The tracked directories that have pending changes.
PendingDirs ==
  (IF dirty_git THEN {"git_dir"} ELSE {}) \cup (IF dirty_raw THEN {"raw_files_dir"} ELSE {})

\* Mutant of needs_commit: both directories must be dirty.
needs_commit_both(raw_status_ok, git_status_ok, raw_pending, git_pending) ==
  is_dirty(raw_status_ok, raw_pending) /\ is_dirty(git_status_ok, git_pending)

\* process_mirroring(), lines 381-385: is_dirty(raw files dir) or
\* is_dirty(git dir); commit_changes() when either answers dirty.
needs_commit(raw_status_ok, git_status_ok, raw_pending, git_pending) ==
  is_dirty(raw_status_ok, raw_pending) \/ is_dirty(git_status_ok, git_pending)

CheckDirty ==
  /\ pc = "process_mirroring"
  /\ repo_i > Len(mirror_config)
  /\ changed' = PendingDirs
  /\ \E raw_status_ok \in BOOLEAN, git_status_ok \in BOOLEAN :
       IF needs_commit(raw_status_ok, git_status_ok, dirty_raw, dirty_git)
         THEN Goto("create_branch") /\ UNCHANGED result
         ELSE Goto("main_result") /\ result' = <<TRUE, None>>
  /\ UNCHANGED <<inputVars, mirror_config, loopVars, targetVars, local_br,
                 remoteVars, log>>

\* ------------------------------------------------------- the commit gate
\* Mutant of CommitFails: the failure is returned with the branch name.
CommitFailsWithBranch(why) ==
  /\ result' = <<FALSE, base_branch>>
  /\ Fail(why, "main_result")

\* commit_changes() returns (False, None).
CommitFails(why) ==
  /\ result' = <<FALSE, None>>
  /\ Fail(why, "main_result")

\* create_branch(): git checkout -b <name> <base> in the target repository
\* creates the branch and switches to it; it fails when the name is taken.
CreateBranch ==
  /\ pc = "create_branch"
  /\ \E timestamp \in Timestamps, ok \in BOOLEAN :
       LET branch_name == BranchName(base_branch, timestamp)
       IN /\ Logged("create_branch", 0, 0, branch_name, ok)
          /\ IF ok /\ branch_name \notin branches
               THEN /\ branches' = branches \cup {branch_name}
                    /\ head' = branch_name
                    /\ local_br' = branch_name
                    /\ Goto("git_add")
                    /\ UNCHANGED result
               ELSE /\ CommitFails("create_branch")
                    /\ UNCHANGED <<branches, head, local_br>>
  /\ UNCHANGED <<inputVars, mirror_config, loopVars, dirty_git, dirty_raw,
                 staged, commits, changed, remoteVars>>

\* git_add(None, git_dir, raw_files_dir): stages the two tracked directories.
GitAdd ==
  /\ pc = "git_add"
  /\ \E ok \in BOOLEAN :
       /\ Logged("add", 0, 0, None, ok)
       /\ IF ok
            THEN /\ staged' = PendingDirs
                 /\ Goto("git_commit")
                 /\ UNCHANGED result
            ELSE /\ CommitFails("add")
                 /\ UNCHANGED staged
  /\ UNCHANGED <<inputVars, mirror_config, loopVars, head, branches, dirty_git,
                 dirty_raw, commits, local_br, changed, remoteVars>>

\* git_commit(): commits the index on the checked-out branch; git refuses to
\* commit an empty index.
GitCommit ==
  /\ pc = "git_commit"
  /\ \E ok \in BOOLEAN :
       /\ Logged("commit", 0, 0, None, ok /\ staged # {})
       /\ IF ok /\ staged # {}
            THEN /\ commits' = Append(commits, [branch |-> head, content |-> staged])
                 /\ staged' = {}
                 /\ dirty_git' = FALSE
                 /\ dirty_raw' = FALSE
                 /\ result' = <<TRUE, local_br>>
                 /\ Goto("main_result")
            ELSE /\ CommitFails("commit")
                 /\ UNCHANGED <<commits, staged, dirty_git, dirty_raw>>
  /\ UNCHANGED <<inputVars, mirror_config, loopVars, head, branches, local_br,
                 changed, remoteVars>>

\* ------------------------------------------------ main, after the run
\* main(), lines 571-586: what follows process_mirroring's (status, branch).
after_mirroring(st, br, push) ==
  IF st = FALSE /\ br = None
    THEN "return 1"
    ELSE IF st /\ br # None /\ push THEN "push" ELSE "return 0"

MainResult ==
  /\ pc = "main_result"
  /\ LET next == after_mirroring(result[1], result[2], args.push)
     IN IF next = "return 1"
          THEN Return(1, "process_mirroring")
          ELSE IF next = "push" THEN Goto("push_branch_to_remote") ELSE Return(0, "none")
  /\ UNCHANGED <<inputVars, mirror_config, loopVars, targetVars, resultVars,
                 remoteVars, log>>

\* push_branch_to_remote(), line 446: checkout_branch(branch), no repo_path.
PushCheckout ==
  /\ pc = "push_branch_to_remote"
  /\ \E ok \in BOOLEAN :
       /\ Logged("checkout_push", 0, 0, result[2], ok)
       /\ checkout_branch(result[2], None, ok)
       /\ IF ok THEN Goto("git_push") ELSE Return(1, "push")
  /\ UNCHANGED <<inputVars, mirror_config, missing, repo_i, branch_i, repo_ok, tmpdirs,
                 branches, dirty_git, dirty_raw, staged, commits, resultVars,
                 remoteVars>>

\* Mutant of after_push: a merge request follows every successful push.
after_push_always(imported, create_mr, push_ret) == push_ret

\* main(), lines 578-583: a merge request follows a successful push when asked for.
after_push(imported, create_mr, push_ret) == imported /\ create_mr /\ push_ret

\* push_branch_to_remote(), lines 448-456: git push --set-upstream -f.  The
\* remote project is shared with other users and runs; the state the run finds
\* it in is an input, observed from here on.
PushBranch ==
  /\ pc = "git_push"
  /\ \E ok \in BOOLEAN :
       /\ Logged("push", 0, 0, result[2], ok)
       /\ IF ok
            THEN /\ \E found \in SUBSET RemoteNames :
                      \E merged \in SUBSET found, mrs \in SUBSET found :
                        /\ remote_branches' = found \cup {result[2]}
                        /\ remote_merged' = merged
                        /\ open_mrs' = mrs
                 /\ IF after_push(GITLAB_IMPORTED, args.create_mr, ok)
                      THEN Goto("create_merge_request")
                      ELSE Return(0, "none")
            ELSE /\ Return(1, "push")
                 /\ UNCHANGED <<remote_branches, remote_merged, open_mrs>>
  /\ UNCHANGED <<inputVars, mirror_config, loopVars, targetVars, resultVars,
                 deleted>>

\* ------------------------------------------------- the merge request
\* create_merge_request(), lines 411-435: the token, then project id and server
\* URL (a missing one is recorded as the failure "gitlab_env"), then the API
\* call; clear_br keeps its default, True.
CreateMergeRequest ==
  /\ pc = "create_merge_request"
  /\ \E token \in BOOLEAN, ci_ids \in BOOLEAN, ok \in BOOLEAN :
       IF ~token \/ ~ci_ids
         THEN /\ Return(1, "gitlab_env")
              /\ UNCHANGED <<open_mrs, log>>
         ELSE /\ Logged("mergerequests.create", 0, 0, result[2], ok)
              /\ IF ok
                   THEN /\ open_mrs' = open_mrs \cup {result[2]}
                        /\ Goto("cleanup_branches")
                   ELSE /\ Return(1, "create_merge_request")
                        /\ UNCHANGED open_mrs
  /\ UNCHANGED <<inputVars, mirror_config, loopVars, targetVars, resultVars,
                 remote_branches, remote_merged, deleted>>

\* cleanup_branches(), lines 392-398.
branch_names(listed) == {b \in listed : MatchesBranchRegex(b)}

open_mr_branches(mrs) == {source_branch \in mrs : MatchesBranchRegex(source_branch)}

\* Mutant of branches_without_open_mrs: the branches with an open merge request
\* are taken instead of left out.
branches_with_open_mrs(listed, mrs) == branch_names(listed) \cap open_mr_branches(mrs)

branches_without_open_mrs(listed, mrs) == branch_names(listed) \ open_mr_branches(mrs)

\* project.delete_merged_branches(): GitLab removes every branch that is merged
\* into the default branch (branches here are unprotected).
delete_merged_branches(listed, merged) == listed \cap merged

\* cleanup_branches(): the two listings, delete_merged_branches(), then one
\* delete per branch without an open merge request.  Any of the calls can raise
\* GitlabError, which ends the function there; the deletes done before stay.
\* create_merge_request() runs it inside its try block, so the error is caught
\* at line 440 and create_merge_request() returns False.
CleanupBranches ==
  /\ pc = "cleanup_branches"
  /\ LET to_delete == branches_without_open_mrs(remote_branches, open_mrs)
         merged == delete_merged_branches(remote_branches, remote_merged)
     IN \/ /\ Logged("cleanup", 0, 0, None, FALSE)
           /\ Return(1, "cleanup_branches")
           /\ \/ UNCHANGED <<remote_branches, deleted>>
              \/ \E done \in SUBSET to_delete :
                   /\ done # to_delete
                   /\ deleted' = merged \cup done
                   /\ remote_branches' = remote_branches \ (merged \cup done)
        \/ /\ Logged("cleanup", 0, 0, None, TRUE)
           /\ Return(0, "none")
           /\ deleted' = merged \cup to_delete
           /\ remote_branches' = remote_branches \ (merged \cup to_delete)
  /\ UNCHANGED <<inputVars, mirror_config, loopVars, targetVars, resultVars,
                 remote_merged, open_mrs>>

\* ----------------------------------------------------- the specification
Next ==
  \/ ValidateFlags
  \/ ValidateEnvironment
  \/ LoadMirrorConfig
  \/ GetToplevel
  \/ CloneRepo
  \/ CheckoutBase
  \/ CheckoutBranch
  \/ CheckElements
  \/ RunBstToLorry
  \/ ProcessRepoReturn
  \/ RepoExit
  \/ CheckDirty
  \/ CreateBranch
  \/ GitAdd
  \/ GitCommit
  \/ MainResult
  \/ PushCheckout
  \/ PushBranch
  \/ CreateMergeRequest
  \/ CleanupBranches

Spec == Init /\ [][Next]_vars

\* Every external command the run starts returns, with success or failure, so
\* a run that can take a step takes one.
FairSpec == Spec /\ WF_vars(Next)

\* ------------------------------------------------------------ the claims
Done == pc = "done"

\* The commands of the repository -> branch -> element pipeline, and the
\* commands that change the target repository's branches, index and history.
ProcessingOps == {"clone", "checkout_base", "checkout", "element_exists", "bst-to-lorry"}
MutationOps == {"create_branch", "add", "commit"}
PublishOps == {"checkout_push", "push", "mergerequests.create", "cleanup"}

LogIndex == 1..Len(log)

Ran(op, r, b) ==
  \E i \in LogIndex : log[i].op = op /\ log[i].repo = r /\ log[i].branch = b

Succeeded(op, r, b) ==
  \E i \in LogIndex :
    log[i].op = op /\ log[i].repo = r /\ log[i].branch = b /\ log[i].ok

\* (r1, b1) comes before (r2, b2) in the config's iteration order.
Before(r1, b1, r2, b2) == r1 < r2 \/ (r1 = r2 /\ b1 < b2)

\* process_mirroring() has returned.
Returned == result # None

\* process_mirroring() has left its loop and asked is_dirty() about the two
\* tracked directories.
DirtyChecked ==
  /\ repo_i > Len(mirror_config)
  /\ pc \in {"create_branch", "git_add", "git_commit", "main_result",
             "push_branch_to_remote", "git_push", "create_merge_request",
             "cleanup_branches", "done"}

\* Branches of the target repository that the run created.
NewBranches == branches \ LocalBranches

\* Every clone, checkout, element check and generator run of the config ran
\* and succeeded.
EveryBranchSucceeded ==
  /\ \A i \in LogIndex : log[i].op \in ProcessingOps => log[i].ok
  /\ \A r \in 1..Len(mirror_config) :
       /\ Succeeded("clone", r, 0)
       /\ Succeeded("checkout_base", r, 0)
       /\ \A b \in 1..Len(mirror_config[r].config) :
            /\ Succeeded("checkout", r, b)
            /\ Succeeded("bst-to-lorry", r, b)

\* The conclusion of C1: one commit, on the one new branch, which is named
\* update-mirrors/<base>/<timestamp> and is the branch reported with success.
OneCommitOnOneNewBranch ==
  /\ Len(commits) = 1
  /\ Cardinality(NewBranches) = 1
  /\ \E timestamp \in Timestamps :
       /\ NewBranches = {BranchName(base_branch, timestamp)}
       /\ commits[1].branch = BranchName(base_branch, timestamp)
       /\ result = <<TRUE, BranchName(base_branch, timestamp)>>
  /\ commits[1].content = changed

\* C1, as stated: whenever every branch checkout, element check and generator run
\* succeeded and a tracked directory has changes afterwards, the run made exactly
\* one commit on exactly one new branch update-mirrors/<base>/<timestamp> and
\* reports success with that name.
C1_OneCommitWhenChanged ==
  (Returned /\ EveryBranchSucceeded /\ changed # {}) => OneCommitOnOneNewBranch

\* C1, amended: the same, when in addition branch creation, staging and commit
\* all succeed.
C1_OneCommitWhenCommitSucceeds ==
  (/\ Returned
   /\ EveryBranchSucceeded
   /\ changed # {}
   /\ \A i \in LogIndex : log[i].op \in MutationOps => log[i].ok)
  => OneCommitOnOneNewBranch

C1_Witness ==
  /\ Done
  /\ Len(mirror_config) = 2
  /\ EveryBranchSucceeded
  /\ changed = {"git_dir"}
  /\ Len(commits) = 1
  /\ result[1] = TRUE

\* The steps whose failure aborts the orchestration (process_mirroring).
AbortSteps == ProcessingOps \cup MutationOps

NoResult == {None, <<FALSE, None>>}

\* C2, as stated: when every branch was generated and neither tracked directory
\* has changes, the run reports success with no branch, makes no commit and no
\* branch, attempts no push or merge request, and exits with 0.
C2_NothingToCommit ==
  (/\ Succeeded("bst-to-lorry", 1, 1)
   /\ EveryBranchSucceeded
   /\ DirtyChecked
   /\ changed = {})
  => /\ commits = <<>>
     /\ NewBranches = {}
     /\ \A i \in LogIndex : log[i].op \notin PublishOps
     /\ Done => (result = <<TRUE, None>> /\ exit_code = 0)

\* C3: once an element is found missing, the generator has not run and does not
\* run for that branch or any later one, nothing but the remaining element checks
\* of that branch runs afterwards, no commit and no branch is made, and the run
\* ends with exit code 1.
C3_MissingElementAborts ==
  \A i \in LogIndex :
    (log[i].op = "element_exists" /\ ~log[i].ok)
    => /\ \A k \in LogIndex :
            log[k].op = "bst-to-lorry"
            => /\ k < i
               /\ Before(log[k].repo, log[k].branch, log[i].repo, log[i].branch)
       /\ \A k \in LogIndex :
            k > i => /\ log[k].op = "element_exists"
                     /\ log[k].repo = log[i].repo
                     /\ log[k].branch = log[i].branch
       /\ commits = <<>>
       /\ NewBranches = {}
       /\ result \in NoResult
       /\ Done => exit_code = 1

C3_Witness ==
  /\ Done
  /\ Len(mirror_config) = 2
  /\ Len(mirror_config[1].config) = 2
  /\ Succeeded("bst-to-lorry", 1, 1)
  /\ \E i \in LogIndex :
       log[i].op = "element_exists" /\ ~log[i].ok /\ log[i].repo = 1 /\ log[i].branch = 2

\* C4: once a clone fails nothing more runs (no later repository is cloned or
\* processed), no branch of the failing repository is processed, no commit is
\* made, and the run ends with exit code 1.
C4_CloneFailureAborts ==
  \A i \in LogIndex :
    (log[i].op = "clone" /\ ~log[i].ok)
    => /\ Len(log) = i
       /\ \A k \in LogIndex : log[k].repo = log[i].repo => k = i
       /\ commits = <<>>
       /\ NewBranches = {}
       /\ result \in NoResult
       /\ Done => exit_code = 1

C4_Witness ==
  /\ Done
  /\ Len(mirror_config) = 2
  /\ Len(mirror_config[2].config) = 2
  /\ log # <<>>
  /\ log[Len(log)] = Event("clone", 1, 0, None, FALSE)

\* C5, as stated: once commit_changes, called with pending changes, has
\* returned, either staging and commit succeeded and the reported branch exists
\* and holds a commit of the staged content, or the target repository shows
\* none of its mutations: no new branch, the checked-out branch it had, an
\* empty index.
C5_CommitAtomic ==
  (Returned /\ Ran("create_branch", 0, 0) /\ changed # {})
  => \/ /\ result[1] = TRUE
        /\ result[2] \in branches
        /\ \E c \in 1..Len(commits) :
             commits[c] = [branch |-> result[2], content |-> changed]
     \/ /\ NewBranches = {}
        /\ head \in LocalBranches
        /\ staged = {}

\* C6, as stated: cleanup never deletes a branch that matches the automation
\* pattern and is the source branch of an open merge request.
C6_CleanupKeepsOpenMrBranches ==
  \A b \in deleted : ~(MatchesBranchRegex(b) /\ b \in open_mrs)

\* C7: branch creation, staging and commit run only after every repository and
\* every branch of the config has been processed with success, and never in a
\* run in which a clone, checkout, element check or generator run failed.
C7_MutationsAfterProcessing ==
  \A j \in LogIndex :
    log[j].op \in MutationOps
    => /\ \A i \in LogIndex : log[i].op \in ProcessingOps => (i < j /\ log[i].ok)
       /\ EveryBranchSucceeded

C7_Witness ==
  /\ Len(mirror_config) = 2
  /\ Len(mirror_config[1].config) = 2
  /\ Len(mirror_config[2].config) = 1
  /\ \E j \in LogIndex : log[j].op = "commit" /\ log[j].ok

\* C8, as stated: a run that aborted on a failed clone, checkout, element check,
\* generator run or commit step leaves the tracked directories, the checked-out
\* branch and the branches of the target repository as they were before the run,
\* in particular when the generator had succeeded for an earlier branch.
C8_NoPartialMutation ==
  (Done /\ failed \in AbortSteps /\ Succeeded("bst-to-lorry", 1, 1))
  => /\ ~dirty_git
     /\ ~dirty_raw
     /\ head = head0
     /\ branches = LocalBranches

\* C9, as stated: the exit code is 1 exactly when flag or environment validation,
\* config loading, toplevel discovery, the orchestration, the push or the
\* creation of the merge request failed, and 0 otherwise.
ExitOneFailures ==
  {"flags", "validate_environment", "load_mirror_config", "get_toplevel",
   "process_mirroring", "push", "gitlab_env", "create_merge_request"}
  \cup AbortSteps

C9_ExitCode ==
  Done => /\ exit_code \in {0, 1}
          /\ exit_code = 1 <=> failed \in ExitOneFailures

\* C10: when a required tool is missing, the current directory is no git
\* checkout, the checkout is dirty, or the config file is missing or invalid, no
\* command of the run (clone, checkout, generation, branch creation, commit,
\* push) is ever attempted, and the run ends with exit code 1.
EnvironmentError ==
  ~env.git \/ ~env.bst \/ ~env.bst_to_lorry \/ ~env.is_git_dir \/ env.dirty

C10_ErrorsBeforeWork ==
  (EnvironmentError \/ failed = "load_mirror_config")
  => /\ log = <<>>
     /\ tmpdirs = {}
     /\ commits = <<>>
     /\ NewBranches = {}
     /\ head = head0
     /\ pc \in {"main", "validate_environment", "load_mirror_config", "done"}
     /\ Done => exit_code = 1

C10_Witness ==
  /\ Done
  /\ FlagsValid(args, GITLAB_IMPORTED)
  /\ env = [git |-> TRUE, bst |-> TRUE, bst_to_lorry |-> FALSE,
            is_git_dir |-> TRUE, dirty |-> FALSE]

\* C11, as stated: in every reachable state, a branch created by the run exists
\* only if one of the two tracked directories had pending changes when every
\* repository had been processed, also when the status query failed.
C11_BranchOnlyWhenChanged ==
  NewBranches # {} => changed # {}

\* The positions of process_repo's with-block, between the clone of a
\* repository and the removal of its temporary directory.
InRepoScope == {"checkout_base", "process_repo", "element_exists", "run_bst_to_lorry", "repo_exit"}

\* C12: at most one temporary clone directory exists at any point; one exists
\* only while its repository is being processed, so it is gone when that
\* processing has ended (with a failed clone, base checkout or branch, or with
\* success) and before the next repository is cloned.
C12_OneScopedClone ==
  /\ Cardinality(tmpdirs) <= 1
  /\ tmpdirs # {} => (pc \in InRepoScope /\ tmpdirs = {CurrentRepo.url})
  /\ pc = "process_mirroring" => tmpdirs = {}

C12_Witness ==
  /\ Done
  /\ Succeeded("bst-to-lorry", 1, 1)
  /\ Ran("clone", 2, 0)
  /\ failed \in {"clone", "checkout_base", "checkout", "element_exists", "bst-to-lorry"}
  /\ tmpdirs = {}

\* C13, as stated: the repository-level checkout of the base branch comes after
\* the successful clone of that repository and before any of its branches is
\* processed, and once it has succeeded the clone is on the base branch while
\* the target repository is still on the branch it had.
C13_BaseCheckoutInClone ==
  \A i \in LogIndex :
    log[i].op = "checkout_base"
    => /\ \E k \in 1..(i - 1) :
            log[k] = Event("clone", log[i].repo, 0, None, TRUE)
       /\ \A k \in 1..(i - 1) :
            log[k].repo = log[i].repo => log[k].op = "clone"
       /\ (log[i].ok /\ i = Len(log))
          => (clone_head = base_branch /\ head = head0)

\* The element_exists runs of branch b of repository r.
ElementEvents(r, b) ==
  {i \in LogIndex :
     log[i].op = "element_exists" /\ log[i].repo = r /\ log[i].branch = b}

\* C14: for every branch of the config, the generator is invoked (or is the
\* next step) exactly when the branch's checkout in the clone succeeded and
\* every element of its list passed element_exists; the generator gets the whole
\* element list; element checks run only after a successful checkout; and when
\* an element is missing, every element of the list was checked, the elements
\* reported missing are exactly the ones whose check failed, the generator does
\* not run for the branch and the branch fails.
C14_GeneratorGate ==
  \A r \in 1..Len(mirror_config) :
    \A b \in 1..Len(mirror_config[r].config) :
      LET elements == mirror_config[r].config[b].elements
          AtGenerator == pc = "run_bst_to_lorry" /\ repo_i = r /\ branch_i = b
          AllPassed == \A e \in 1..Len(elements) :
                         \E i \in ElementEvents(r, b) :
                           log[i].arg = elements[e] /\ log[i].ok
          Failing == {log[i].arg : i \in {k \in ElementEvents(r, b) : ~log[k].ok}}
      IN /\ (Ran("bst-to-lorry", r, b) \/ AtGenerator)
            <=> (Succeeded("checkout", r, b) /\ AllPassed)
         /\ \A i \in LogIndex :
              (log[i].op = "bst-to-lorry" /\ log[i].repo = r /\ log[i].branch = b)
              => /\ log[i].arg = elements
                 /\ \A k \in ElementEvents(r, b) : k < i
         /\ ElementEvents(r, b) # {}
            => /\ Succeeded("checkout", r, b)
               /\ \A e \in 1..Len(elements) :
                    \E i \in ElementEvents(r, b) : log[i].arg = elements[e]
               /\ Cardinality(ElementEvents(r, b)) = Len(elements)
         /\ Failing # {}
            => /\ {missing[m] : m \in 1..Len(missing)} = Failing
               /\ Len(missing) = Cardinality(Failing)
               /\ ~Ran("bst-to-lorry", r, b)
               /\ ~AtGenerator
               /\ failed = "element_exists"
               /\ pc \in {"repo_exit", "main_result", "done"}

C14_Witness ==
  /\ Done
  /\ Len(mirror_config) = 2
  /\ Succeeded("bst-to-lorry", 1, 1)
  /\ Succeeded("bst-to-lorry", 1, 2)
  /\ Succeeded("checkout", 2, 1)
  /\ Succeeded("checkout", 2, 2)
  /\ Len(missing) = 2
  /\ ~Ran("bst-to-lorry", 2, 2)

\* C15: the publishing steps are ordered and gated.  The checkout for the push
\* runs only when push was requested and the run committed on the automation
\* branch it reports; the push directly follows the successful checkout of
\* that branch; the merge request is created directly after the successful
\* push, only when it was requested and the token, project id and server URL
\* are present; cleanup directly follows the successful creation.  With a
\* missing token or identifier no merge request is created and the run ends
\* with exit code 1.
C15_PublishOrder ==
  /\ \A j \in LogIndex :
       /\ log[j].op \in PublishOps
          => /\ args.push
             /\ result = <<TRUE, local_br>>
             /\ local_br \in NewBranches
             /\ \E c \in 1..Len(commits) : commits[c].branch = local_br
             /\ \E i \in 1..(j - 1) : log[i].op = "commit" /\ log[i].ok
       /\ log[j].op = "checkout_push"
          => (log[j].arg = local_br /\ log[j - 1].op = "commit")
       /\ log[j].op = "push"
          => log[j - 1] = Event("checkout_push", 0, 0, local_br, TRUE)
       /\ log[j].op = "mergerequests.create"
          => /\ log[j - 1] = Event("push", 0, 0, local_br, TRUE)
             /\ log[j].arg = local_br
             /\ args.create_mr
             /\ GITLAB_IMPORTED
             /\ failed # "gitlab_env"
       /\ log[j].op = "cleanup"
          => log[j - 1] = Event("mergerequests.create", 0, 0, local_br, TRUE)
  /\ failed = "gitlab_env"
     => /\ Done
        /\ exit_code = 1
        /\ \A j \in LogIndex : log[j].op \notin {"mergerequests.create", "cleanup"}
        /\ local_br \notin open_mrs
        /\ log[Len(log)] = Event("push", 0, 0, local_br, TRUE)

C15_Witness ==
  /\ Done
  /\ Len(log) >= 4
  /\ log[Len(log) - 3] = Event("checkout_push", 0, 0, local_br, TRUE)
  /\ log[Len(log) - 2] = Event("push", 0, 0, local_br, TRUE)
  /\ log[Len(log) - 1] = Event("mergerequests.create", 0, 0, local_br, TRUE)
  /\ log[Len(log)].op = "cleanup"

\* C16, as stated: once the merge request has been created, no failure of a
\* cleanup step changes the outcome: the run ends with exit code 0.
C16_CleanupBestEffort ==
  (Done /\ \E j \in LogIndex : log[j].op = "mergerequests.create" /\ log[j].ok)
  => exit_code = 0

\* cleanup_branches() has run to its end.
CleanupDone == \E j \in LogIndex : log[j].op = "cleanup" /\ log[j].ok

\* C17: after a cleanup that ran to its end, every branch of the remote project
\* that matches the automation pattern is the source of an open merge request
\* and no merged branch is left, so the sets a second cleanup would delete are
\* empty: it deletes nothing and leaves the branch set as it is.
C17_CleanupIdempotent ==
  CleanupDone
  => /\ \A b \in remote_branches : MatchesBranchRegex(b) => b \in open_mrs
     /\ remote_branches \cap remote_merged = {}
     /\ branches_without_open_mrs(remote_branches, open_mrs) = {}
     /\ delete_merged_branches(remote_branches, remote_merged) = {}
     /\ remote_branches
          \ (delete_merged_branches(remote_branches, remote_merged)
               \cup branches_without_open_mrs(remote_branches, open_mrs))
        = remote_branches

C17_Witness ==
  /\ CleanupDone
  /\ deleted = {OldBranch}
  /\ remote_merged = {}
  /\ remote_branches = {LookAlike, local_br}

\* The runs of command op for branch b of repository r (b = 0: for the
\* repository itself).
Runs(op, r, b) ==
  {i \in LogIndex : log[i].op = op /\ log[i].repo = r /\ log[i].branch = b}

\* The repositories and (repository, branch) pairs of the loaded config.
ConfigRepos == 1..Len(mirror_config)
ConfigBranches(r) == 1..Len(mirror_config[r].config)

\* The place of a processing command in the config's iteration order:
\* repository, branch (0 for the clone and the base checkout), the step within
\* the branch, and the element for an element check.
StepRank(op) ==
  CASE op = "clone" -> 1
    [] op = "checkout_base" -> 2
    [] op = "checkout" -> 3
    [] op = "element_exists" -> 4
    [] op = "bst-to-lorry" -> 5

StepKey(e) ==
  <<e.repo, e.branch, StepRank(e.op), IF e.op = "element_exists" THEN e.arg[2] ELSE 0>>

\* Lexicographic order on the keys.
KeyLess(x, y) ==
  \E n \in 1..4 : x[n] < y[n] /\ \A m \in 1..(n - 1) : x[m] = y[m]

\* C18: no retry and no skip.  The clones, checkouts, element checks and
\* generator runs are logged in strictly increasing config order, so none is
\* made twice for the same repository, branch or element; each runs only after
\* the one before it succeeded (the element checks of one branch all run,
\* whatever the earlier ones found); a repository is cloned only after the
\* repository before it was cloned and the generator succeeded for every one of
\* its branches.  When the orchestration succeeded, each ran exactly once.
C18_NoRetryNoSkip ==
  /\ \A i \in LogIndex :
       log[i].op \in ProcessingOps
       => /\ log[i].repo \in ConfigRepos
          /\ log[i].branch \in {0} \cup ConfigBranches(log[i].repo)
          /\ i = 1 => log[i] = Event("clone", 1, 0, None, log[i].ok)
          /\ i > 1
             => /\ log[i - 1].op \in ProcessingOps
                /\ KeyLess(StepKey(log[i - 1]), StepKey(log[i]))
                /\ \/ log[i - 1].ok
                   \/ /\ log[i - 1].op = "element_exists"
                      /\ log[i].op = "element_exists"
                      /\ log[i - 1].repo = log[i].repo
                      /\ log[i - 1].branch = log[i].branch
          /\ (log[i].op = "clone" /\ log[i].repo > 1)
             => /\ Succeeded("clone", log[i].repo - 1, 0)
                /\ \A b \in ConfigBranches(log[i].repo - 1) :
                     Succeeded("bst-to-lorry", log[i].repo - 1, b)
  /\ (Returned /\ result[1] /\ failed = "none")
     => \A r \in ConfigRepos :
          /\ Cardinality(Runs("clone", r, 0)) = 1
          /\ Cardinality(Runs("checkout_base", r, 0)) = 1
          /\ \A b \in ConfigBranches(r) :
               /\ Cardinality(Runs("checkout", r, b)) = 1
               /\ Cardinality(Runs("bst-to-lorry", r, b)) = 1
               /\ Cardinality(Runs("element_exists", r, b))
                    = Len(mirror_config[r].config[b].elements)

C18_Witness ==
  /\ Done
  /\ exit_code = 0
  /\ Len(mirror_config) = 2
  /\ Len(mirror_config[1].config) = 2
  /\ Len(mirror_config[2].config) = 2
  /\ Cardinality(Runs("bst-to-lorry", 2, 2)) = 1
  /\ Cardinality(Runs("element_exists", 1, 2)) = 2

\* What process_mirroring() may return: (True, branch), (True, None) or
\* (False, None).
ResultShapes ==
  {<<TRUE, BranchName(base_branch, timestamp)>> : timestamp \in Timestamps}
  \cup {<<TRUE, None>>, <<FALSE, None>>}

\* C19: when every external command returns, the run ends, with exit code 0 or
\* 1, whatever succeeded and failed; and process_mirroring() never returns
\* anything but (True, branch), (True, None) or (False, None).
C19_Terminates ==
  /\ <>(Done /\ exit_code \in {0, 1})
  /\ [](Returned => result \in ResultShapes)
  /\ [](exit_code \in {-1, 0, 1} /\ (exit_code # -1 <=> Done))

C19_Witness ==
  /\ Done
  /\ exit_code = 1
  /\ Len(mirror_config) = 2
  /\ EveryBranchSucceeded
  /\ failed = "commit"
  /\ result = <<FALSE, None>>
  /\ NewBranches # {}

====
